---------------------------- MODULE Spec2Model ----------------------------
(***************************************************************************)
(* A model of two Pillow modules:                                          *)
(*   PpmImagePlugin.py  the PBM/PGM/PPM header tokenizer (_read_magic,     *)
(*                      _read_token), the decoder (_open) and the encoder  *)
(*                      (_save);                                           *)
(*   ImageStat.py       the lazily evaluated, cached statistics of a       *)
(*                      256-bin-per-band histogram (class Stat).           *)
(* Bytes are integers 0..255, a bytes object is a sequence of them, and    *)
(* fp.read(1) yields a sequence of length one, or the empty sequence at    *)
(* the end of the input.                                                   *)
(***************************************************************************)
EXTENDS Integers, Sequences, FiniteSets

VARIABLES
    stream,     \* tokenizer: the bytes behind self.fp
    pos,        \* tokenizer: self.fp.tell()
    pc,         \* tokenizer: position in _read_token ("idle" between calls)
    token,      \* tokenizer: the local variable token
    start,      \* tokenizer: fp.tell() when the running call was entered
    returned,   \* tokenizer: the tokens returned so far, in call order
    err,        \* tokenizer: the exception _read_token raised, or "none"
    file,       \* codec: the bytes of the file on disk
    origin,     \* codec: how the file came to be (what was saved or written)
    opened,     \* codec: what _open left on the PpmImageFile object
    h,          \* stat: self.h
    bands,      \* stat: self.bands
    obj,        \* stat: "none", "built", or the exception of Stat.__init__
    cache,      \* stat: the instance attributes set by __getattr__
    runs,       \* stat: per statistic, how often its _get function returned
    last        \* stat: the outcome of the latest attribute access

tokVars == <<stream, pos, pc, token, start, returned, err>>
codecVars == <<file, origin, opened>>
statVars == <<h, bands, obj, cache, runs, last>>
vars == <<tokVars, codecVars, statVars>>

-----------------------------------------------------------------------------
(* Bytes *)

SP == 32
LF == 10
CR == 13
HASH == 35
ZERO == 48

b_whitespace == {32, 9, 10, 11, 12, 13}

\* Python's "c in b" for a bytes object c of length <= 1: a substring test, so
\* the empty bytes object is "in" every bytes object.
InBytes(c, b) == c = <<>> \/ c[1] \in b

\* fp.read(1) at offset p of the byte sequence s.
Read1(s, p) == IF p < Len(s) THEN <<s[p + 1]>> ELSE <<>>

-----------------------------------------------------------------------------
(* _read_token: one loop iteration per step.  A tokenizer state is         *)
(* [pos, token, pc] with pc "loop" (at the while test), "comment" (in the  *)
(* inner while) or "exit" (after the loop).                                *)

TokenLimit == 10

\* Variant: the while test as len(token) < 10.
LoopIterStrictLimit(s, t) ==
    IF Len(t.token) >= TokenLimit THEN [t EXCEPT !.pc = "exit"]
    ELSE LET c == Read1(s, t.pos)
             p == t.pos + Len(c)
         IN  IF c # <<>> /\ InBytes(c, b_whitespace) /\ t.token = <<>>
                 THEN [t EXCEPT !.pos = p]
             ELSE IF (c # <<>> /\ InBytes(c, b_whitespace)) \/ c = <<>>
                 THEN [t EXCEPT !.pos = p, !.pc = "exit"]
             ELSE IF c = <<HASH>>
                 THEN [t EXCEPT !.pos = p, !.pc = "comment"]
             ELSE [t EXCEPT !.pos = p, !.token = t.token \o c]

\* Variant: no comment branch, "#" is an ordinary token byte.
LoopIterNoComment(s, t) ==
    IF Len(t.token) > TokenLimit THEN [t EXCEPT !.pc = "exit"]
    ELSE LET c == Read1(s, t.pos)
             p == t.pos + Len(c)
         IN  IF c # <<>> /\ InBytes(c, b_whitespace) /\ t.token = <<>>
                 THEN [t EXCEPT !.pos = p]
             ELSE IF (c # <<>> /\ InBytes(c, b_whitespace)) \/ c = <<>>
                 THEN [t EXCEPT !.pos = p, !.pc = "exit"]
             ELSE [t EXCEPT !.pos = p, !.token = t.token \o c]

\* The while test of line 63 and one pass through the body, lines 64-75.
LoopIter(s, t) ==
    IF Len(t.token) > TokenLimit THEN [t EXCEPT !.pc = "exit"]
    ELSE LET c == Read1(s, t.pos)
             p == t.pos + Len(c)
         IN  IF c # <<>> /\ InBytes(c, b_whitespace) /\ t.token = <<>>
                 THEN [t EXCEPT !.pos = p]
             ELSE IF (c # <<>> /\ InBytes(c, b_whitespace)) \/ c = <<>>
                 THEN [t EXCEPT !.pos = p, !.pc = "exit"]
             ELSE IF c = <<HASH>>
                 THEN [t EXCEPT !.pos = p, !.pc = "comment"]
             ELSE [t EXCEPT !.pos = p, !.token = t.token \o c]

\* Variant: the inner while tests membership in {CR, LF}, which the empty
\* read at the end of the input does not pass.
CommentIterMembership(s, t) ==
    LET c == Read1(s, t.pos)
        p == t.pos + Len(c)
    IN  IF ~(c # <<>> /\ c[1] \in {CR, LF})
            THEN [t EXCEPT !.pos = p]
            ELSE [t EXCEPT !.pos = p, !.pc = "loop"]

\* One pass of the inner while of lines 72-73; leaving it is the "continue"
\* of line 74, back to the while test.
CommentIter(s, t) ==
    LET c == Read1(s, t.pos)
        p == t.pos + Len(c)
    IN  IF ~InBytes(c, {CR, LF})
            THEN [t EXCEPT !.pos = p]
            ELSE [t EXCEPT !.pos = p, !.pc = "loop"]

\* Lines 76-81: what the call yields once the loop is left.
TokenOutcome(t) ==
    IF t.token = <<>> THEN "EOF"
    ELSE IF Len(t.token) > TokenLimit THEN "TooLong"
    ELSE "ok"

RECURSIVE RunToken(_, _)
RunToken(s, t) ==
    IF t.pc = "exit" THEN t
    ELSE IF t.pc = "comment" THEN RunToken(s, CommentIter(s, t))
    ELSE RunToken(s, LoopIter(s, t))

\* A whole call of _read_token at offset p: [pos, token, err].
_read_token(s, p) ==
    LET t == RunToken(s, [pos |-> p, token |-> <<>>, pc |-> "loop"])
    IN  [pos |-> t.pos, token |-> t.token, err |-> TokenOutcome(t)]

-----------------------------------------------------------------------------
(* The tokenizer run step by step over bounded inputs. *)

MaxAffix == 3
MaxRun == 12
MaxCalls == 3

AffixBytes == {49, SP, LF, HASH}

Affixes == UNION {[1..n -> AffixBytes] : n \in 0..MaxAffix}

\* k token bytes "1234567890123...".
DigitRun(k) == [i \in 1..k |-> ZERO + (i % 10)]

\* b"  12 #comment\n34", a comment ended by CR LF, tab / VT / FF as
\* whitespace, and a comment glued to a token.
ExampleStreams ==
    { <<32, 32, 49, 50, 32, 35, 99, 111, 109, 109, 101, 110, 116, 10, 51, 52>>,
      <<49, 50, 9, 35, 32, 120, 35, 13, 10, 51, 52, 11, 12, 53>>,
      <<49, 50, 35, 120, 10, 51, 52, 32, 53>>,
      <<35, 97, 10, 35, 98, 13, 55, 32, 35, 99>> }

\* A run of token bytes with at most MaxAffix arbitrary bytes around it.
TokenStreams ==
    {ab[1] \o DigitRun(k) \o ab[2] :
        ab \in {x \in Affixes \X Affixes : Len(x[1]) + Len(x[2]) <= MaxAffix},
        k \in 0..MaxRun}
        \cup ExampleStreams

CodecIdle == /\ file = <<>>
             /\ origin = [kind |-> "off"]
             /\ opened = [status |-> "closed"]

StatIdle == /\ h = <<>>
            /\ bands = <<>>
            /\ obj = "off"
            /\ cache = <<>>
            /\ runs = <<>>
            /\ last = [id |-> "none"]

InitToken ==
    /\ stream \in TokenStreams
    /\ pos = 0
    /\ pc = "idle"
    /\ token = <<>>
    /\ start = 0
    /\ returned = <<>>
    /\ err = "none"
    /\ CodecIdle
    /\ StatIdle

\* self._read_token() is entered.
CallReadToken ==
    /\ pc = "idle"
    /\ Len(returned) < MaxCalls
    /\ pc' = "loop"
    /\ token' = <<>>
    /\ start' = pos
    /\ UNCHANGED <<stream, pos, returned, err>>
    /\ UNCHANGED <<codecVars, statVars>>

TokenLoop ==
    /\ pc = "loop"
    /\ LET t == LoopIter(stream, [pos |-> pos, token |-> token, pc |-> pc])
       IN  /\ pos' = t.pos
           /\ token' = t.token
           /\ pc' = t.pc
    /\ UNCHANGED <<stream, start, returned, err>>
    /\ UNCHANGED <<codecVars, statVars>>

TokenComment ==
    /\ pc = "comment"
    /\ LET t == CommentIter(stream, [pos |-> pos, token |-> token, pc |-> pc])
       IN  /\ pos' = t.pos
           /\ token' = t.token
           /\ pc' = t.pc
    /\ UNCHANGED <<stream, start, returned, err>>
    /\ UNCHANGED <<codecVars, statVars>>

TokenExit ==
    /\ pc = "exit"
    /\ LET o == TokenOutcome([token |-> token])
       IN  IF o = "ok"
               THEN /\ returned' = Append(returned, token)
                    /\ pc' = "idle"
                    /\ err' = err
               ELSE /\ returned' = returned
                    /\ pc' = "raised"
                    /\ err' = o
    /\ UNCHANGED <<stream, pos, token, start>>
    /\ UNCHANGED <<codecVars, statVars>>

NextToken ==
    \/ CallReadToken
    \/ TokenLoop
    \/ TokenComment
    \/ TokenExit

SpecToken == InitToken /\ [][NextToken]_vars

\* The interpreter runs a call to its end: no step of _read_token waits.
SpecTokenFair == SpecToken /\ WF_vars(NextToken)

-----------------------------------------------------------------------------
(* What a header means, stated over the whole byte sequence and without    *)
(* the loop: the yardstick the tokenizer is measured against.              *)

\* Byte i (1-based) of s belongs to a comment opened at or after byte a: it
\* is a "#", or a "#" precedes it with no CR or LF strictly in between (the
\* CR or LF ending a comment belongs to it).
Covered(s, a, i) ==
    \E j \in a..i : s[j] = HASH /\ \A k \in (j + 1)..(i - 1) : s[k] \notin {CR, LF}

\* Byte i is a token byte / a whitespace byte outside every comment.
Plain(s, a, i) == ~Covered(s, a, i) /\ s[i] \notin b_whitespace

Delimiter(s, a, i) == ~Covered(s, a, i) /\ s[i] \in b_whitespace

\* The bytes of s at the positions P, in stream order.
BytesAt(s, P) ==
    [n \in 1..Cardinality(P) |->
        s[CHOOSE i \in P : Cardinality({j \in P : j <= i}) = n]]

\* The token bytes a call entered at offset p meets before the first
\* delimiter that follows a token byte (or the end of the input).
TokenPositions(s, p) ==
    LET plain == {i \in (p + 1)..Len(s) : Plain(s, p + 1, i)}
    IN  IF plain = {} THEN {}
        ELSE LET f == CHOOSE i \in plain : \A j \in plain : i <= j
                 stops == {i \in (f + 1)..Len(s) : Delimiter(s, p + 1, i)}
                 e == IF stops = {} THEN Len(s) + 1
                      ELSE CHOOSE i \in stops : \A j \in stops : i <= j
             IN  {i \in plain : i < e}

CallOver == pc = "raised" \/ (pc = "idle" /\ returned # <<>>)

\* C3: a call of _read_token raises "Reached EOF" exactly when the input from
\* its entry offset on holds no token byte (it is empty, or whitespace and
\* comments only); it raises "Token too long" exactly when more than 10 token
\* bytes precede the first delimiter; otherwise it returns those token bytes,
\* 1 to 10 of them, none a whitespace byte.  An 11-byte run of token bytes
\* raises "Token too long"; a 10-byte run ended by whitespace or by the end
\* of the input is returned.
C3_TokenContract ==
    CallOver =>
        LET P == TokenPositions(stream, start)
            run(n) == \A i \in (start + 1)..(start + n) :
                          /\ i <= Len(stream)
                          /\ stream[i] \notin b_whitespace \cup {HASH}
        IN  /\ (pc = "raised" /\ err = "EOF") <=> (P = {})
            /\ (pc = "raised" /\ err = "TooLong") <=> (Cardinality(P) > TokenLimit)
            /\ (pc = "raised") => err \in {"EOF", "TooLong"}
            /\ (pc = "idle") =>
                  /\ err = "none"
                  /\ returned[Len(returned)] = BytesAt(stream, P)
                  /\ Len(returned[Len(returned)]) \in 1..TokenLimit
                  /\ \A n \in 1..Len(returned[Len(returned)]) :
                         returned[Len(returned)][n] \notin b_whitespace
            /\ run(TokenLimit + 1) => (pc = "raised" /\ err = "TooLong")
            /\ (/\ run(TokenLimit)
                /\ \/ start + TokenLimit = Len(stream)
                   \/ /\ start + TokenLimit < Len(stream)
                      /\ stream[start + TokenLimit + 1] \in b_whitespace)
               => /\ pc = "idle"
                  /\ returned[Len(returned)] =
                         [n \in 1..TokenLimit |-> stream[start + n]]

\* Reached: one call returned a 10-byte token, another raised "Token too
\* long", another "Reached EOF" after whitespace or a comment.
C3_WitnessTen == pc = "idle" /\ returned # <<>> /\ Len(returned[Len(returned)]) = TokenLimit

C3_WitnessTooLong == pc = "raised" /\ err = "TooLong" /\ Len(token) = TokenLimit + 1

C3_Witness ==
    /\ pc = "raised"
    /\ err = "EOF"
    /\ Len(stream) > start
    /\ \E i \in (start + 1)..Len(stream) : stream[i] = HASH

\* A header as the format writes it: every comment opens right after a
\* whitespace byte and no run of token bytes is longer than 10.
WellFormed(s) ==
    /\ \A i \in 1..Len(s) :
          (s[i] = HASH /\ ~(i > 1 /\ Covered(s, 1, i - 1) /\ s[i - 1] \notin {CR, LF}))
              => (i > 1 /\ s[i - 1] \in b_whitespace)
    /\ \A i \in 1..Len(s) :
          ~(\A k \in i..(i + TokenLimit) : k <= Len(s) /\ Plain(s, 1, k))

\* The maximal runs of token bytes of s, in stream order.
ExpectedTokens(s) ==
    LET firsts == {i \in 1..Len(s) :
                      Plain(s, 1, i) /\ (i = 1 \/ ~Plain(s, 1, i - 1))}
        last_(i) == CHOOSE j \in i..Len(s) :
                        /\ \A k \in i..j : Plain(s, 1, k)
                        /\ (j = Len(s) \/ ~Plain(s, 1, j + 1))
        nth(n) == CHOOSE i \in firsts : Cardinality({j \in firsts : j <= i}) = n
    IN  [n \in 1..Cardinality(firsts) |->
            [k \in 1..(last_(nth(n)) - nth(n) + 1) |-> s[nth(n) + k - 1]]]

\* C4: on a well-formed header, successive calls of _read_token return the
\* tokens of the header in stream order, a call fails only once all of them
\* have been returned (with "Reached EOF"), and no returned token holds a
\* byte of a comment.
C4_CommentsSkipped ==
    WellFormed(stream) =>
        LET exp == ExpectedTokens(stream)
        IN  /\ Len(returned) <= Len(exp)
            /\ \A n \in 1..Len(returned) : returned[n] = exp[n]
            /\ (pc = "raised") => (err = "EOF" /\ returned = exp)
            /\ \A n \in 1..Len(returned) : \A k \in 1..Len(returned[n]) :
                   returned[n][k] # HASH

\* Reached: two tokens returned around a comment that holds token-like bytes.
C4_Witness ==
    /\ WellFormed(stream)
    /\ Len(returned) >= 2
    /\ \E i \in 2..Len(stream) :
          /\ stream[i - 1] = HASH
          /\ stream[i] \notin b_whitespace
          /\ Covered(stream, 1, i)
          /\ i <= pos

\* A pass of either loop of _read_token consumes a byte or leaves the loop.
LoopProgress == (pc \in {"loop", "comment"}) => ((pos' > pos) \/ (pc' /= pc))

\* C10: every call of _read_token ends (it returns or raises), also when the
\* input ends within leading whitespace or within a comment; and every pass
\* of either loop consumes a byte or leaves that loop.
C10_Terminates ==
    /\ [](pc \in {"loop", "comment", "exit"} => <>(pc \in {"idle", "raised"}))
    /\ [][LoopProgress]_vars

\* Reached: a call ended although its comment ran into the end of the input.
C10_Witness ==
    /\ pc \in {"idle", "raised"}
    /\ pos = Len(stream)
    /\ \E j \in (start + 1)..Len(stream) :
          /\ stream[j] = HASH
          /\ \A k \in j..Len(stream) : stream[k] \notin {CR, LF}

-----------------------------------------------------------------------------
(* PpmImageFile._read_magic, int(), MODES and _open *)

MagicLimit == 6

\* Lines 54-58 with n passes of the for loop left.
RECURSIVE MagicLoop(_, _, _, _)
MagicLoop(s, p, magic, n) ==
    IF n = 0 THEN [magic |-> magic, pos |-> p]
    ELSE LET c == Read1(s, p)
         IN  IF c = <<>> \/ InBytes(c, b_whitespace)
                 THEN [magic |-> magic, pos |-> p + Len(c)]
                 ELSE MagicLoop(s, p + 1, magic \o c, n - 1)

_read_magic(s) == MagicLoop(s, 0, <<>>, MagicLimit)

P4 == <<80, 52>>
P5 == <<80, 53>>
P6 == <<80, 54>>
P0CMYK == <<80, 48, 67, 77, 89, 75>>
PyP == <<80, 121, 80>>
PyRGBA == <<80, 121, 82, 71, 66, 65>>
PyCMYK == <<80, 121, 67, 77, 89, 75>>

MODES ==
    [m \in {P4, P5, P6, P0CMYK, PyP, PyRGBA, PyCMYK} |->
        CASE m = P4 -> "1"
          [] m = P5 -> "L"
          [] m = P6 -> "RGB"
          [] m = P0CMYK -> "CMYK"
          [] m = PyP -> "P"
          [] m = PyRGBA -> "RGBA"
          [] m = PyCMYK -> "CMYK"]

Digits == 48..57

\* A Python int, which has no upper bound, is held as a sign and two limbs,
\* hi * 100000 + lo: a token of at most 10 digits always fits.
Limb == 100000

PyInt(n) == [neg |-> FALSE, hi |-> n \div Limb, lo |-> n % Limb]

PyLess(a, b) ==
    LET less(x, y) == x.hi < y.hi \/ (x.hi = y.hi /\ x.lo < y.lo)
    IN  IF a.neg # b.neg THEN a.neg
        ELSE IF a.neg THEN less(b, a)
        ELSE less(a, b)

RECURSIVE DigitsValue(_, _)
DigitsValue(b, acc) ==
    IF b = <<>> THEN acc
    ELSE IF Head(b) = 95 THEN DigitsValue(Tail(b), acc)
    ELSE LET low == 10 * acc.lo + (Head(b) - ZERO)
         IN  DigitsValue(Tail(b), [acc EXCEPT !.hi = 10 * acc.hi + low \div Limb,
                                              !.lo = low % Limb])

\* Python's int() of a bytes token that holds no whitespace: an optional
\* sign, then decimal digits that single underscores may separate; anything
\* else raises ValueError.
int(tok) ==
    LET signed == tok # <<>> /\ tok[1] \in {43, 45}
        body == IF signed THEN Tail(tok) ELSE tok
        wellformed ==
            /\ body # <<>>
            /\ \A i \in 1..Len(body) : body[i] \in Digits \cup {95}
            /\ body[1] # 95
            /\ body[Len(body)] # 95
            /\ \A i \in 1..(Len(body) - 1) : ~(body[i] = 95 /\ body[i + 1] = 95)
        mag == DigitsValue(body, PyInt(0))
    IN  IF ~wellformed THEN [ok |-> FALSE, v |-> PyInt(0)]
        ELSE [ok |-> TRUE,
              v |-> [mag EXCEPT !.neg = signed /\ tok[1] = 45 /\ mag # PyInt(0)]]

\* Variant: the 16-bit layout up to and including 2 ** 16.
WideRawmodeInclusive(maxval) ==
    IF ~PyLess(PyInt(2 ^ 16), maxval) THEN "I;16B" ELSE "I;32B"

\* Line 115.
WideRawmode(maxval) == IF PyLess(maxval, PyInt(2 ^ 16)) THEN "I;16B" ELSE "I;32B"

Failed(e) == [status |-> e, tile |-> <<>>]

Tile(rawmode, xsize, ysize, offset) ==
    <<"raw", <<0, 0, xsize, ysize>>, offset, <<rawmode, 0, 1>>>>

\* One pass of the for loop of lines 102-116: the token at offset p as an
\* integer, or the exception that reading or converting it raises.
IntToken(s, p) ==
    LET t == _read_token(s, p)
    IN  IF t.err # "ok" THEN [err |-> t.err, pos |-> t.pos, v |-> PyInt(0)]
        ELSE IF ~int(t.token).ok
            THEN [err |-> "InvalidLiteral", pos |-> t.pos, v |-> PyInt(0)]
        ELSE [err |-> "ok", pos |-> t.pos, v |-> int(t.token).v]

\* PpmImageFile._open on a file holding the bytes s: the mode, size and tile
\* it sets, or the exception it raises.
_open(s) ==
    LET m == _read_magic(s)
    IN  IF m.magic \notin DOMAIN MODES THEN Failed("SyntaxError")
        ELSE
        LET mode == MODES[m.magic]
            x == IntToken(s, m.pos)
            y == IntToken(s, x.pos)
            maxval == IntToken(s, y.pos)
            wide == PyLess(PyInt(255), maxval.v)
        IN  IF x.err # "ok" THEN Failed(x.err)
            ELSE IF y.err # "ok" THEN Failed(y.err)
            ELSE IF mode = "1"
                THEN [status |-> "ok", mode |-> "1", size |-> <<x.v, y.v>>,
                      tile |-> Tile("1;I", x.v, y.v, y.pos)]
            ELSE IF maxval.err # "ok" THEN Failed(maxval.err)
            ELSE IF wide /\ mode # "L" THEN Failed("TooManyColors")
            ELSE [status |-> "ok",
                  mode |-> IF wide THEN "I" ELSE mode,
                  size |-> <<x.v, y.v>>,
                  tile |-> Tile(IF wide THEN WideRawmode(maxval.v) ELSE mode,
                                x.v, y.v, maxval.pos)]

-----------------------------------------------------------------------------
(* _save *)

\* "%d" of a natural number, ASCII-encoded.
RECURSIVE Decimal(_)
Decimal(n) ==
    IF n < 10 THEN <<ZERO + n>>
    ELSE Append(Decimal(n \div 10), ZERO + (n % 10))

\* Variant: b"65536\n" for the 16-bit layout.
MaxvalLineWide65536(head, rawmode) ==
    IF head = P6 THEN <<50, 53, 53, 10>>
    ELSE IF head = P5 /\ rawmode = "L" THEN <<50, 53, 53, 10>>
    ELSE IF head = P5 /\ rawmode = "I;16B" THEN <<54, 53, 53, 51, 54, 10>>
    ELSE IF head = P5 /\ rawmode = "I;32B" THEN <<50, 49, 52, 55, 52, 56, 51, 54, 52, 56, 10>>
    ELSE <<>>

\* Lines 142-150: b"255\n", b"65535\n" or b"2147483648\n" after the size
\* line, nothing for P4.
MaxvalLine(head, rawmode) ==
    IF head = P6 THEN <<50, 53, 53, 10>>
    ELSE IF head = P5 /\ rawmode = "L" THEN <<50, 53, 53, 10>>
    ELSE IF head = P5 /\ rawmode = "I;16B" THEN <<54, 53, 53, 51, 53, 10>>
    ELSE IF head = P5 /\ rawmode = "I;32B" THEN <<50, 49, 52, 55, 52, 56, 51, 54, 52, 56, 10>>
    ELSE <<>>

\* Lines 126-140: [rawmode, head] for the image, head <<>> when the mode
\* cannot be written.
SaveLayout(im) ==
    CASE im.mode = "1" -> [rawmode |-> "1;I", head |-> P4]
      [] im.mode = "L" -> [rawmode |-> "L", head |-> P5]
      [] im.mode = "I" -> IF im.max < 2 ^ 16
                              THEN [rawmode |-> "I;16B", head |-> P5]
                              ELSE [rawmode |-> "I;32B", head |-> P5]
      [] im.mode = "RGB" -> [rawmode |-> "RGB", head |-> P6]
      [] im.mode = "RGBA" -> [rawmode |-> "RGB", head |-> P6]
      [] OTHER -> [rawmode |-> "", head |-> <<>>]

\* _save(im, fp, filename): the header written to fp and the tile handed to
\* ImageFile._save, or OSError.  im is [mode, size, max], max standing for
\* im.getextrema()[1].
_save(im) ==
    LET l == SaveLayout(im)
    IN  IF l.head = <<>> THEN [status |-> "OSError", header |-> <<>>, tile |-> <<>>]
        ELSE [status |-> "ok",
              header |-> l.head \o <<LF>> \o Decimal(im.size[1]) \o <<SP>>
                           \o Decimal(im.size[2]) \o <<LF>>
                           \o MaxvalLine(l.head, l.rawmode),
              tile |-> <<"raw", <<0, 0, im.size[1], im.size[2]>>, 0, <<l.rawmode, 0, 1>>>>]

-----------------------------------------------------------------------------
(* The codec over bounded inputs: an image is saved, or a file written by  *)
(* some other program is found on disk, and the file is then opened.       *)

MaxDim == 1
MaxPayload == 1
Margin == 1

Dims == (0..MaxDim) \cup {9, 10, 2147483647}

\* The images handed to _save; getextrema is consulted for mode "I" only.
Images ==
    {[mode |-> m, size |-> <<w, ht>>, max |-> 255] :
        m \in {"1", "L", "RGB", "RGBA", "CMYK", "P"}, w \in Dims, ht \in Dims}
    \cup
    {[mode |-> "I", size |-> <<w, ht>>, max |-> x] :
        w \in Dims, ht \in Dims,
        x \in ((2 ^ 16 - Margin)..(2 ^ 16 + Margin)) \cup {0, 2147483647}}

\* Raw pixel bytes as ImageFile._save writes them after the header: any
\* bytes, also ones that look like header text.
Payloads == UNION {[1..n -> {0, 49, LF, HASH}] : n \in 0..MaxPayload}

Magics == DOMAIN MODES \cup {<<80, 55>>, <<>>}

\* The maxval tokens tried: from 0 to just above 1, around 255, 65536 and
\* 70000, and 2147483648, 9999999999 (10 digits) and 10000000000 (11 digits).
Maxvals ==
    {PyInt(n) : n \in (0..(1 + Margin)) \cup
        UNION {(t - Margin)..(t + Margin) : t \in {255, 2 ^ 16, 70000}}}
    \cup {[neg |-> FALSE, hi |-> 21474, lo |-> 83648],
          [neg |-> FALSE, hi |-> 99999, lo |-> 99999],
          [neg |-> FALSE, hi |-> 100000, lo |-> 0]}

\* "%d" of a non-negative Python int.
DecimalPy(v) ==
    IF v.hi = 0 THEN Decimal(v.lo)
    ELSE Decimal(v.hi) \o [i \in 1..5 |-> ZERO + ((v.lo \div (10 ^ (5 - i))) % 10)]

\* Files of other writers: magic, width, height, then nothing more, or a
\* maxval token (after a newline or after a comment) and what follows it.
RawFiles ==
    {[bytes |-> m \o <<LF>> \o Decimal(w) \o <<SP>> \o Decimal(ht),
      magic |-> m, hasmax |-> FALSE, maxval |-> PyInt(0)] :
        m \in Magics, w \in 0..MaxDim, ht \in 0..MaxDim}
    \cup
    {[bytes |-> m \o <<LF>> \o Decimal(w) \o <<SP>> \o Decimal(ht) \o sep
                  \o DecimalPy(mv) \o fin,
      magic |-> m, hasmax |-> TRUE, maxval |-> mv] :
        m \in Magics, w \in 0..MaxDim, ht \in 0..MaxDim, mv \in Maxvals,
        sep \in {<<LF>>, <<SP, HASH, 120, CR>>}, fin \in {<<>>, <<LF, 49>>}}

\* b"P5 1 1 -1\n", b"P6\n1 x\n255\n", b"P6 1 1 1_0\n".
ExampleFiles ==
    { <<80, 53, 32, 49, 32, 49, 32, 45, 49, 10>>,
      <<80, 54, 10, 49, 32, 120, 10, 50, 53, 53, 10>>,
      <<80, 54, 32, 49, 32, 49, 32, 49, 95, 48, 10>> }

TokenIdle == /\ stream = <<>>
             /\ pos = 0
             /\ pc = "off"
             /\ token = <<>>
             /\ start = 0
             /\ returned = <<>>
             /\ err = "none"

InitCodec ==
    /\ file = <<>>
    /\ origin = [kind |-> "none"]
    /\ opened = [status |-> "closed"]
    /\ TokenIdle
    /\ StatIdle

\* Image.save(...) with format PPM: _save, then the pixel bytes.
Save ==
    /\ origin.kind = "none"
    /\ \E im \in Images, payload \in Payloads :
          LET r == _save(im)
          IN  IF r.status = "ok"
                  THEN /\ file' = r.header \o payload
                       /\ origin' = [kind |-> "saved", im |-> im, tile |-> r.tile,
                                     header |-> r.header, payload |-> payload]
                  ELSE /\ file' = <<>>
                       /\ origin' = [kind |-> "unsaved", im |-> im]
    /\ UNCHANGED <<opened, tokVars, statVars>>

\* A file that another program wrote.
FindFile ==
    /\ origin.kind = "none"
    /\ \/ \E f \in RawFiles :
             /\ file' = f.bytes
             /\ origin' = [kind |-> "raw", magic |-> f.magic,
                           hasmax |-> f.hasmax, maxval |-> f.maxval]
       \/ \E f \in ExampleFiles :
             /\ file' = f
             /\ origin' = [kind |-> "example"]
    /\ UNCHANGED <<opened, tokVars, statVars>>

\* Image.open(...): PpmImageFile._open on the file.
Open ==
    /\ origin.kind \in {"saved", "raw", "example"}
    /\ opened.status = "closed"
    /\ opened' = _open(file)
    /\ UNCHANGED <<file, origin, tokVars, statVars>>

NextCodec ==
    \/ Save
    \/ FindFile
    \/ Open

SpecCodec == InitCodec /\ [][NextCodec]_vars

\* C1: a header with width, height and a maxval token (one that fits a
\* token, under 10^10) decodes as follows.  maxval <= 255: the mode of the
\* magic with its own layout.  maxval > 255 under P5: mode "I", layout
\* "I;16B" below 65536 and "I;32B" from 65536 on (65535 gives 16 bits, 65536
\* and 70000 give 32).  maxval > 255 under any other magic but P4: "Too many
\* colors for band" and no tile.
C1_MaxvalDispatch ==
    (/\ opened.status # "closed"
     /\ origin.kind = "raw"
     /\ origin.hasmax
     /\ origin.maxval.hi < Limb
     /\ origin.magic \in DOMAIN MODES)
    =>
    LET mode == MODES[origin.magic]
        small == origin.maxval.hi = 0
        mv == origin.maxval.lo
    IN  /\ (small /\ mv <= 255) =>
              /\ opened.status = "ok"
              /\ opened.mode = mode
              /\ opened.tile[4] = <<IF mode = "1" THEN "1;I" ELSE mode, 0, 1>>
        /\ (~(small /\ mv <= 255) /\ mode = "L") =>
              /\ opened.status = "ok"
              /\ opened.mode = "I"
              /\ (small /\ mv < 65536) => opened.tile[4][1] = "I;16B"
              /\ ~(small /\ mv < 65536) => opened.tile[4][1] = "I;32B"
              /\ (small /\ mv = 65535) => opened.tile[4][1] = "I;16B"
              /\ (small /\ mv \in {65536, 70000}) => opened.tile[4][1] = "I;32B"
        /\ (~(small /\ mv <= 255) /\ mode \notin {"L", "1"}) =>
              /\ opened.status = "TooManyColors"
              /\ opened.tile = <<>>

\* Reached: P5 with maxval 65536 opened as "I;32B", and P6 refused.
C1_Witness ==
    /\ origin.kind = "raw"
    /\ origin.hasmax
    /\ origin.magic = P5
    /\ origin.maxval = PyInt(65536)
    /\ opened.status = "ok"
    /\ opened.tile[4][1] = "I;32B"

C1_WitnessRefused ==
    /\ origin.kind = "raw"
    /\ origin.hasmax
    /\ origin.magic = P6
    /\ origin.maxval = PyInt(256)
    /\ opened.status = "TooManyColors"

Symmetric(im) ==
    \/ im.mode \in {"1", "L", "RGB"}
    \/ im.mode = "I" /\ im.max < 65536

\* C2: opening what _save wrote for an image of mode "1", "L", "RGB", or "I"
\* with maximum below 65536 succeeds with the image's size and mode, the raw
\* layout tag the encoder used, and the pixel data offset equal to the length
\* of the written header, so that the bytes from that offset on are the
\* pixel bytes written.
C2_RoundTrip ==
    (/\ opened.status # "closed"
     /\ origin.kind = "saved"
     /\ Symmetric(origin.im))
    =>
    /\ opened.status = "ok"
    /\ opened.size = <<PyInt(origin.im.size[1]), PyInt(origin.im.size[2])>>
    /\ opened.mode = origin.im.mode
    /\ opened.tile[1] = origin.tile[1]
    /\ opened.tile[2] = <<0, 0, PyInt(origin.im.size[1]), PyInt(origin.im.size[2])>>
    /\ opened.tile[4] = origin.tile[4]
    /\ opened.tile[3] = Len(origin.header)
    /\ SubSeq(file, opened.tile[3] + 1, Len(file)) = origin.payload

\* Reached: a 16-bit "I" image of the largest size, with pixel bytes that
\* look like header text, was saved and opened.
C2_Witness ==
    /\ origin.kind = "saved"
    /\ origin.im.mode = "I"
    /\ origin.im.max = 65535
    /\ origin.im.size = <<2147483647, 10>>
    /\ origin.payload = <<49>>
    /\ opened.status = "ok"

C2_WitnessBilevel ==
    /\ origin.kind = "saved"
    /\ origin.im.mode = "1"
    /\ origin.payload = <<49>>
    /\ opened.status = "ok"

-----------------------------------------------------------------------------
(* ImageStat.Stat.  self.h is a sequence, so Python's h[i] is h[i + 1]     *)
(* here.  The statistics an object has computed are its instance           *)
(* attributes: cache maps the names set so far to their values.  An        *)
(* attribute access that finds the name in cache is answered from it;      *)
(* otherwise __getattr__ runs.  The sums are floats in the code; every     *)
(* value that occurs here is an integer that a float holds exactly.  A     *)
(* quotient a / b is kept as the fraction [num |-> a, den |-> b] and a     *)
(* square root as [sqrt |-> x], so no rounding is modelled.                *)

BINS == 256

StatNames ==
    {"extrema", "count", "sum", "sum2", "mean", "median", "rms", "var", "stddev"}

\* The offsets range(0, len(self.h), 256), as a sequence.
Offsets == [k \in 1..((Len(h) + BINS - 1) \div BINS) |-> BINS * (k - 1)]

Returns(e, v) == [e |-> e, status |-> "ok", v |-> v]

Raises(e, exc) == [e |-> e, status |-> exc, v |-> <<>>]

\* Variant: a last, short layer counts as a band.
BandsCeil(list) == [k \in 1..((Len(list) + BINS - 1) \div BINS) |-> k - 1]

\* Line 37: list(range(len(self.h) // 256)).
Bands(list) == [k \in 1..(Len(list) \div BINS) |-> k - 1]

\* Lines 55-57 of minmax for the slice that starts at offset st.b.
minmaxBody(st, i) ==
    IF h[st.b + i + 1] # 0
        THEN [st EXCEPT !.n = IF i < st.n THEN i ELSE st.n,
                        !.x = IF i > st.x THEN i ELSE st.x]
        ELSE st

\* Line 69: one step of functools.reduce(operator.add, ...).
AddBody(st, j) == [st EXCEPT !.acc = st.acc + h[st.i + j + 1]]

\* Line 80: layerSum += j * self.h[i + j].
SumBody(st, j) == [st EXCEPT !.acc = st.acc + j * h[st.i + j + 1]]

\* Line 91: sum2 += (j ** 2) * float(self.h[i + j]).
Sum2Body(st, j) == [st EXCEPT !.acc = st.acc + (j ^ 2) * h[st.i + j + 1]]

\* Variant: the loop breaks at s >= half.
MedianBodyInclusive(st, j) ==
    IF st.broke THEN st
    ELSE [st EXCEPT !.j = j,
                    !.s = st.s + h[st.b + j + 1],
                    !.broke = st.s + h[st.b + j + 1] >= st.half]

\* Lines 108-111; once the loop has broken, j stays.
MedianBody(st, j) ==
    IF st.broke THEN st
    ELSE [st EXCEPT !.j = j,
                    !.s = st.s + h[st.b + j + 1],
                    !.broke = st.s + h[st.b + j + 1] > st.half]

\* The body of the loop named kind, run for index j on the loop state st.
LoopBody(kind, st, j) ==
    CASE kind = "minmax" -> minmaxBody(st, j)
      [] kind = "add" -> AddBody(st, j)
      [] kind = "sum" -> SumBody(st, j)
      [] kind = "sum2" -> Sum2Body(st, j)
      [] kind = "median" -> MedianBody(st, j)

\* for j in range(from, from + n) with the body named kind, run on the loop
\* state st.  The range is split in two halves that run one after the other.
RECURSIVE For(_, _, _, _)
For(kind, st, from, n) ==
    IF n = 0 THEN st
    ELSE IF n = 1 THEN LoopBody(kind, st, from)
    ELSE LET mid == For(kind, st, from, n \div 2)
         IN  IF mid = mid THEN For(kind, mid, from + n \div 2, n - n \div 2)
             ELSE st

\* Lines 51-58.
minmax(b) ==
    LET st == For("minmax", [b |-> b, n |-> 255, x |-> 0], 0, BINS)
    IN  <<st.n, st.x>>

\* A slice self.h[i:] shorter than 256 raises IndexError in minmax.
_getextrema(e) ==
    IF \E k \in 1..Len(Offsets) : Len(h) - Offsets[k] < BINS
        THEN Raises(e, "IndexError")
        ELSE Returns(e, [k \in 1..Len(Offsets) |-> minmax(Offsets[k])])

\* functools.reduce(operator.add, self.h[a:b]) for a slice that is not empty.
ReduceAdd(a, b) == For("add", [i |-> a, acc |-> 0], 0, b - a).acc

_getcount(e) ==
    Returns(e, [k \in 1..Len(Offsets) |->
        ReduceAdd(Offsets[k],
                  IF Offsets[k] + BINS < Len(h) THEN Offsets[k] + BINS ELSE Len(h))])

\* self.h[i + j] raises IndexError when the last layer is short.
_getsum(e) ==
    IF \E k \in 1..Len(Offsets) : Offsets[k] + BINS > Len(h)
        THEN Raises(e, "IndexError")
        ELSE Returns(e, [k \in 1..Len(Offsets) |-> For("sum", [i |-> Offsets[k], acc |-> 0], 0, BINS).acc])

_getsum2(e) ==
    IF \E k \in 1..Len(Offsets) : Offsets[k] + BINS > Len(h)
        THEN Raises(e, "IndexError")
        ELSE Returns(e, [k \in 1..Len(Offsets) |-> For("sum2", [i |-> Offsets[k], acc |-> 0], 0, BINS).acc])

RECURSIVE GetAttr(_, _)

\* Variant: a zero count raises nothing.
_getmeanNoRaise(e) ==
    IF bands = <<>> THEN Returns(e, <<>>)
    ELSE LET s == GetAttr(e, "sum")
             c == GetAttr(s.e, "count")
         IN  IF s.status # "ok" THEN s
             ELSE IF c.status # "ok" THEN c
             ELSE Returns(c.e, [k \in 1..Len(bands) |->
                      [num |-> s.v[bands[k] + 1], den |-> c.v[bands[k] + 1]]])

\* Line 98: per band self.sum[i] / self.count[i]; nothing is looked up when
\* there is no band.
_getmean(e) ==
    IF bands = <<>> THEN Returns(e, <<>>)
    ELSE LET s == GetAttr(e, "sum")
             c == GetAttr(s.e, "count")
         IN  IF s.status # "ok" THEN s
             ELSE IF c.status # "ok" THEN c
             ELSE IF \E k \in 1..Len(bands) : c.v[bands[k] + 1] = 0
                 THEN Raises(c.e, "ZeroDivisionError")
             ELSE Returns(c.e, [k \in 1..Len(bands) |->
                      [num |-> s.v[bands[k] + 1], den |-> c.v[bands[k] + 1]]])

\* Lines 105-112 for the band at offset b: the j that is appended.
MedianScan(b, half) ==
    For("median", [b |-> b, half |-> half, s |-> 0, j |-> 0, broke |-> FALSE],
        0, BINS).j

\* Variant: half is counted from the bins, self.count is not read.
_getmedianOwnCount(e) ==
    Returns(e, [k \in 1..Len(bands) |->
        MedianScan(bands[k] * BINS,
                   ReduceAdd(bands[k] * BINS, bands[k] * BINS + BINS) \div 2)])

_getmedian(e) ==
    IF bands = <<>> THEN Returns(e, <<>>)
    ELSE LET c == GetAttr(e, "count")
         IN  IF c.status # "ok" THEN c
             ELSE Returns(c.e, [k \in 1..Len(bands) |->
                      MedianScan(bands[k] * BINS, c.v[bands[k] + 1] \div 2)])

\* Line 118: math.sqrt(self.sum2[i] / self.count[i]).
_getrms(e) ==
    IF bands = <<>> THEN Returns(e, <<>>)
    ELSE LET s2 == GetAttr(e, "sum2")
             c == GetAttr(s2.e, "count")
         IN  IF s2.status # "ok" THEN s2
             ELSE IF c.status # "ok" THEN c
             ELSE IF \E k \in 1..Len(bands) : c.v[bands[k] + 1] = 0
                 THEN Raises(c.e, "ZeroDivisionError")
             ELSE Returns(c.e, [k \in 1..Len(bands) |->
                      [sqrt |-> [num |-> s2.v[bands[k] + 1],
                                 den |-> c.v[bands[k] + 1]]]])

\* Lines 124-126: n = self.count[i], then
\* (self.sum2[i] - (self.sum[i] ** 2.0) / n) / n, as one fraction.
_getvar(e) ==
    IF bands = <<>> THEN Returns(e, <<>>)
    ELSE LET c == GetAttr(e, "count")
             s2 == GetAttr(c.e, "sum2")
             s == GetAttr(s2.e, "sum")
         IN  IF c.status # "ok" THEN c
             ELSE IF s2.status # "ok" THEN s2
             ELSE IF s.status # "ok" THEN s
             ELSE IF \E k \in 1..Len(bands) : c.v[bands[k] + 1] = 0
                 THEN Raises(s.e, "ZeroDivisionError")
             ELSE Returns(s.e, [k \in 1..Len(bands) |->
                      LET n == c.v[bands[k] + 1]
                      IN  [num |-> s2.v[bands[k] + 1] * n - s.v[bands[k] + 1] ^ 2,
                           den |-> n * n]])

\* Line 132: math.sqrt(self.var[i]).
_getstddev(e) ==
    IF bands = <<>> THEN Returns(e, <<>>)
    ELSE LET v == GetAttr(e, "var")
         IN  IF v.status # "ok" THEN v
             ELSE Returns(v.e, [k \in 1..Len(bands) |-> [sqrt |-> v.v[bands[k] + 1]]])

\* Lines 41-46: the _get function of the name runs and its result is set as
\* an attribute; a name without one raises AttributeError.
__getattr__(e, id) ==
    IF id \notin StatNames THEN Raises(e, "AttributeError")
    ELSE LET r == CASE id = "extrema" -> _getextrema(e)
                    [] id = "count" -> _getcount(e)
                    [] id = "sum" -> _getsum(e)
                    [] id = "sum2" -> _getsum2(e)
                    [] id = "mean" -> _getmean(e)
                    [] id = "median" -> _getmedian(e)
                    [] id = "rms" -> _getrms(e)
                    [] id = "var" -> _getvar(e)
                    [] id = "stddev" -> _getstddev(e)
         IN  IF r.status # "ok" THEN r
             ELSE Returns([cache |-> [n \in DOMAIN r.e.cache \cup {id} |->
                                         IF n = id THEN r.v ELSE r.e.cache[n]],
                           runs |-> [r.e.runs EXCEPT ![id] = @ + 1]],
                          r.v)

\* Variant: an attribute that is set is computed again all the same.
GetAttrRecompute(e, id) == __getattr__(e, id)

\* The attribute access self.<id>: an attribute that is set is returned,
\* and __getattr__ is called for one that is missing.
GetAttr(e, id) ==
    IF id \in DOMAIN e.cache THEN Returns(e, e.cache[id])
    ELSE __getattr__(e, id)

-----------------------------------------------------------------------------
(* Stat objects over bounded histograms. *)

MaxCount == 3
MaxBands == 2

Sites == {0, 10, 255}

\* The bins of one band: zero except at the sites, where bin 0 holds no
\* pixel or MaxCount pixels and the others at most one.
FirstBandPatterns ==
    {f \in [Sites -> 0..MaxCount] : f[0] \in {0, MaxCount} /\ f[10] <= 1 /\ f[255] <= 1}

OtherBandPatterns == {f \in [Sites -> 0..1] : f[0] = f[255] /\ f[10] = 0}

ShortPatterns == {f \in [Sites -> 0..1] : f[0] = f[10] /\ f[10] = f[255]}

MakeHist(len, first, other) ==
    [i \in 1..len |->
        IF (i - 1) % BINS \notin Sites THEN 0
        ELSE IF i <= BINS THEN first[(i - 1) % BINS]
        ELSE other[(i - 1) % BINS]]

\* The lists handed to Stat: whole bands, and lengths 255 and 300 that are
\* no multiple of 256.
Histograms ==
    {MakeHist(BINS * n, f, g) :
        n \in 0..1, f \in FirstBandPatterns, g \in OtherBandPatterns}
    \cup {MakeHist(BINS * n, f, g) :
        n \in 2..MaxBands, f \in {x \in FirstBandPatterns : x[10] = 1 /\ x[255] = 0},
        g \in OtherBandPatterns}
    \cup {MakeHist(len, f, f) : len \in {255, 300}, f \in ShortPatterns}

InitStat ==
    /\ h = <<>>
    /\ bands = <<>>
    /\ obj = "none"
    /\ cache = <<>>
    /\ runs = [n \in StatNames |-> 0]
    /\ last = [id |-> "none"]
    /\ TokenIdle
    /\ CodecIdle

\* Stat(image_or_list): a list (given, or returned by the image's
\* histogram method) becomes self.h; anything else raises TypeError.
Construct ==
    /\ obj = "none"
    /\ \/ \E list \in Histograms :
             /\ h' = list
             /\ bands' = Bands(list)
             /\ obj' = "built"
             /\ last' = [id |-> "__init__", list |-> TRUE]
       \/ /\ obj' = "TypeError"
          /\ last' = [id |-> "__init__", list |-> FALSE]
          /\ UNCHANGED <<h, bands>>
    /\ UNCHANGED <<cache, runs, tokVars, codecVars>>

\* stat.<id> is read.
Access ==
    /\ obj = "built"
    /\ \E id \in StatNames \cup {"foo"} :
          LET r == GetAttr([cache |-> cache, runs |-> runs], id)
          IN  /\ cache' = r.e.cache
              /\ runs' = r.e.runs
              /\ last' = [id |-> id, status |-> r.status, v |-> r.v]
    /\ UNCHANGED <<h, bands, obj, tokVars, codecVars>>

NextStat ==
    \/ Construct
    \/ Access

SpecStat == InitStat /\ [][NextStat]_vars

-----------------------------------------------------------------------------
(* The statistics as the histogram defines them, without the loops. *)

\* The pixels of band k in the bins of the set S.
RECURSIVE BinSum(_, _)
BinSum(k, S) ==
    IF S = {} THEN 0
    ELSE LET x == CHOOSE y \in S : TRUE
         IN  h[BINS * k + x + 1] + BinSum(k, S \ {x})

\* The pixels of band k in the bins 0..j.
Cumulative(k, j) == BinSum(k, {i \in 0..j : h[BINS * k + i + 1] # 0})

WholeBands == Len(h) % BINS = 0

EmptyBand(k) == \A i \in 0..(BINS - 1) : h[BINS * k + i + 1] = 0

SomeBandEmpty == \E k \in 0..(Len(h) \div BINS - 1) : EmptyBand(k)

\* C5 as claimed: an object is only ever built from a list whose length is a
\* positive multiple of 256, and then has length / 256 >= 1 bands.
C5_AsClaimed ==
    obj = "built" =>
        /\ Len(h) > 0
        /\ Len(h) % BINS = 0
        /\ Len(bands) = Len(h) \div BINS
        /\ Len(bands) >= 1

\* C5 as amended: Stat.__init__ rejects an argument only for not being a
\* list.  Every list is accepted whatever its length, the empty list and
\* lengths that are no multiple of 256 included, and the object then has
\* floor(length / 256) bands, numbered from 0: none for a list shorter
\* than 256.
C5_AnyListAccepted ==
    /\ last.id = "__init__" => (obj = "built" <=> last.list)
    /\ obj = "built" =>
          /\ Len(bands) = Len(h) \div BINS
          /\ \A k \in 1..Len(bands) : bands[k] = k - 1
          /\ BINS * Len(bands) <= Len(h)
          /\ Len(h) < BINS * (Len(bands) + 1)

\* Reached: an object built from a list of 300 entries, with one band.
C5_Witness == obj = "built" /\ Len(h) = 300 /\ bands = <<0>>

C5_WitnessEmpty == obj = "built" /\ h = <<>> /\ bands = <<>>

\* What the first access of a statistic leaves computed, per the code.
Computes(id) ==
    CASE id = "mean" -> {"mean", "sum", "count"}
      [] id = "median" -> {"median", "count"}
      [] id = "rms" -> {"rms", "sum2", "count"}
      [] id = "var" -> {"var", "sum2", "sum", "count"}
      [] id = "stddev" -> {"stddev", "var", "sum2", "sum", "count"}
      [] OTHER -> {id}

\* The same per the declared dependency order: median stands alone.
Declared(id) == IF id = "median" THEN {"median"} ELSE Computes(id)

\* A fresh object of whole bands, at least one and none of them empty.
FreshAndFilled ==
    /\ obj = "built"
    /\ DOMAIN cache = {}
    /\ WholeBands
    /\ Len(bands) >= 1
    /\ ~SomeBandEmpty

FirstAccessAsDeclared ==
    (FreshAndFilled /\ last'.id \in StatNames) => DOMAIN cache' = Declared(last'.id)

FirstAccessAsComputed ==
    (FreshAndFilled /\ last'.id \in StatNames) => DOMAIN cache' = Computes(last'.id)

RunsOnce ==
    obj = "built" =>
        \A n \in StatNames : runs[n] = (IF n \in DOMAIN cache THEN 1 ELSE 0)

CachedForGood ==
    \A n \in DOMAIN cache :
        /\ n \in DOMAIN cache'
        /\ cache'[n] = cache[n]
        /\ last'.id = n =>
              /\ last'.status = "ok"
              /\ last'.v = cache[n]
              /\ cache' = cache
              /\ runs' = runs

\* C7: a statistic's _get function returns at most once per object; a
\* statistic that is set stays set with the value it was first given; and
\* reading it again yields that value and computes nothing, neither the
\* statistic nor anything it depends on.
C7_Memoized == []RunsOnce /\ [][CachedForGood]_vars

\* Reached: var read from the cache, after stddev, mean and all they depend
\* on were computed on a two-band histogram.
C7_Witness ==
    /\ obj = "built"
    /\ last.id = "var"
    /\ last.status = "ok"
    /\ Len(bands) = 2
    /\ {"stddev", "var", "mean", "sum", "sum2", "count"} \subseteq DOMAIN cache

\* C8: on a histogram of whole bands, reading mean, var or rms raises
\* ZeroDivisionError when some band holds no pixel, and the statistic is
\* then not set, so that reading it again raises again; when every band
\* holds a pixel the read succeeds and the statistic is set.
C8_EmptyChannel ==
    (obj = "built" /\ WholeBands /\ last.id \in {"mean", "var", "rms"}) =>
        IF SomeBandEmpty
            THEN /\ last.status = "ZeroDivisionError"
                 /\ last.id \notin DOMAIN cache
            ELSE /\ last.status = "ok"
                 /\ last.id \in DOMAIN cache
                 /\ Len(last.v) = Len(bands)

\* Reached: var failed on a histogram whose second band alone is empty.
C8_Witness ==
    /\ obj = "built"
    /\ Len(bands) = 2
    /\ ~EmptyBand(0)
    /\ EmptyBand(1)
    /\ last.id = "var"
    /\ last.status = "ZeroDivisionError"
    /\ "var" \notin DOMAIN cache

\* C9: the median of a band is the smallest bin j whose cumulative count over
\* the band's own bins 0..j exceeds floor(count / 2), and 255 for a band
\* without pixels; bin 0: 3, bin 10: 1 gives 0.  (The cumulative count never
\* falls, so the smallest such j is the one whose predecessor does not
\* exceed.)
C9_Median ==
    (obj = "built" /\ "median" \in DOMAIN cache) =>
        /\ Len(cache["median"]) = Len(bands)
        /\ \A k \in 0..(Len(bands) - 1) :
              LET m == cache["median"][k + 1]
                  half == Cumulative(k, BINS - 1) \div 2
              IN  /\ m \in 0..(BINS - 1)
                  /\ IF Cumulative(k, BINS - 1) = 0 THEN m = 255
                     ELSE /\ Cumulative(k, m) > half
                          /\ m > 0 => Cumulative(k, m - 1) <= half
                  /\ (/\ h[BINS * k + 1] = 3
                      /\ h[BINS * k + 11] = 1
                      /\ Cumulative(k, BINS - 1) = 4) => m = 0

\* Reached: two bands with medians 0 (bin 0: 3, bin 10: 1) and 255.
C9_Witness ==
    /\ obj = "built"
    /\ "median" \in DOMAIN cache
    /\ Len(bands) = 2
    /\ h[1] = 3
    /\ h[11] = 1
    /\ cache["median"] = <<0, 255>>

C9_WitnessEmpty ==
    /\ obj = "built"
    /\ "median" \in DOMAIN cache
    /\ Len(bands) = 1
    /\ EmptyBand(0)
    /\ cache["median"] = <<255>>

=============================================================================
